---- MODULE Spec2Model ----
(***************************************************************************)
(* FAQ-Scraper (src/app.py): the FAQScraper crawl session.                 *)
(*                                                                         *)
(* Text is modelled as a sequence of characters; a character is a string   *)
(* of length one, and a non-ASCII character is written by its code point   *)
(* ("U+00E9").  URLs, link texts, questions and answers are such           *)
(* sequences, so that the substring tests, the regular expressions and     *)
(* the character counts of the source are computed as the source computes  *)
(* them.                                                                   *)
(***************************************************************************)
EXTENDS Integers, Sequences, FiniteSets, TLC

VARIABLES
    pc,                  \* position of the session (which operation runs next)
    base_url,            \* FAQScraper.base_url
    max_pages,           \* FAQScraper.max_pages
    site,                \* the web site: what a GET of each URL answers
    visited_urls,        \* FAQScraper.visited_urls
    all_faqs,            \* FAQScraper.all_faqs
    seen_questions,      \* FAQScraper.seen_questions
    faq_page_found,      \* FAQScraper.faq_page_found
    all_links_with_text, \* scrape_sync local
    faq_links,           \* scrape_sync local: FAQ links still to iterate
    to_crawl,            \* scrape_sync local: the frontier
    origin,              \* history: the strategy that produced each record of all_faqs
    fetch_log,           \* history: every GET issued, in order, with its outcome
    attempts,            \* history: every candidate handed to _add_faq, in order
    url_arg,             \* the url a URL helper is called with, when called on its own
    url_ret              \* what the helper returned, call after call

vars == <<pc, base_url, max_pages, site, visited_urls, all_faqs, seen_questions,
          faq_page_found, all_links_with_text, faq_links, to_crawl, origin,
          fetch_log, attempts, url_arg, url_ret>>

----------------------------------------------------------------------------
(* Evaluation                                                              *)

\* F(v), with v computed once.  An operator argument and a LET definition
\* are evaluated again at every use; a value is bound here before it is
\* used more than once.
Force(v, F(_)) == CHOOSE r \in {F(x) : x \in {v}} : TRUE
Force2(v, w, F(_, _)) == CHOOSE r \in {F(x, y) : x \in {v}, y \in {w}} : TRUE

----------------------------------------------------------------------------
(* Characters and strings                                                  *)

LowerLetters == <<"a","b","c","d","e","f","g","h","i","j","k","l","m",
                  "n","o","p","q","r","s","t","u","v","w","x","y","z">>
UpperLetters == <<"A","B","C","D","E","F","G","H","I","J","K","L","M",
                  "N","O","P","Q","R","S","T","U","V","W","X","Y","Z">>
Digits == {"0","1","2","3","4","5","6","7","8","9"}
Whitespace == {" ", "\n", "\t"}

\* The non-ASCII characters of the model: e-acute, E-acute, two CJK
\* ideographs, the bullet and dash decorations, the copyright sign.
NonAscii == {"U+00E9", "U+00C9", "U+4E2D", "U+6587", "U+2022", "U+00B7",
             "U+2013", "U+2014", "U+00A9"}

Range(s) == {s[i] : i \in 1..Len(s)}

AsciiLetters == Range(LowerLetters) \cup Range(UpperLetters)

\* str.lower() on the characters it changes
LowerMap ==
    [c \in Range(UpperLetters) \cup {"U+00C9"} |->
        IF c = "U+00C9" THEN "U+00E9"
        ELSE LowerLetters[CHOOSE i \in 1..26 : UpperLetters[i] = c]]

lower_char(c) == IF c \in DOMAIN LowerMap THEN LowerMap[c] ELSE c

lower(s) == Force(s, LAMBDA x : [i \in 1..Len(x) |-> lower_char(x[i])])

\* s[n:] and s[:n]
Drop(s, n) == Force(s, LAMBDA x : SubSeq(x, n + 1, Len(x)))
Take(s, n) == SubSeq(s, 1, n)

\* whether pat occurs in s at position i (1-based)
MatchAt(s, pat, i) ==
    /\ i >= 1
    /\ i + Len(pat) - 1 <= Len(s)
    /\ \A k \in 1..Len(pat) : s[i + k - 1] = pat[k]

\* Python's `pat in s`
Contains(s, pat) ==
    Force2(s, pat, LAMBDA x, p : \E i \in 1..(Len(x) + 1) : MatchAt(x, p, i))

\* the least element of a non-empty set of integers
Min(S) == CHOOSE i \in S : \A j \in S : i <= j

\* first position of pat in s, 0 when absent
Find(s, pat) ==
    Force2(s, pat, LAMBDA x, p :
        Force({i \in 1..(Len(x) + 1) : MatchAt(x, p, i)}, LAMBDA hits :
            IF hits = {} THEN 0 ELSE Min(hits)))

startswith(s, pat) == Force2(s, pat, LAMBDA x, p : MatchAt(x, p, 1))
endswith(s, pat) ==
    Force2(s, pat, LAMBDA x, p :
        Len(p) <= Len(x) /\ MatchAt(x, p, Len(x) - Len(p) + 1))

\* number of leading / trailing characters of s that lie in set cs
LeadRun(s, cs) ==
    Force2(s, cs, LAMBDA x, set :
        Force({i \in 1..Len(x) : x[i] \notin set}, LAMBDA out :
            IF out = {} THEN Len(x) ELSE Min(out) - 1))
TrailRun(s, cs) ==
    Force2(s, cs, LAMBDA x, set :
        Force({Len(x) + 1 - i : i \in {j \in 1..Len(x) : x[j] \notin set}}, LAMBDA out :
            IF out = {} THEN Len(x) ELSE Min(out) - 1))

lstrip_chars(s, cs) == Force(s, LAMBDA x : SubSeq(x, LeadRun(x, cs) + 1, Len(x)))
rstrip_chars(s, cs) == Force(s, LAMBDA x : SubSeq(x, 1, Len(x) - TrailRun(x, cs)))
strip_chars(s, cs) ==
    Force(s, LAMBDA x : SubSeq(x, LeadRun(x, cs) + 1, Len(x) - TrailRun(x, cs)))

\* str.strip()
strip(s) == strip_chars(s, Whitespace)

\* re.sub(r'\s+', ' ', text): every run of whitespace becomes one space
\* (a whitespace character after another one is dropped)
collapse_ws(s) ==
    Force(s, LAMBDA x :
        SelectSeq([i \in 1..Len(x) |->
                      IF x[i] \notin Whitespace THEN x[i]
                      ELSE IF i > 1 /\ x[i - 1] \in Whitespace THEN "" ELSE " "],
                  LAMBDA c : c # ""))

\* sep.join(parts), from the i-th part on
RECURSIVE JoinFrom(_, _, _)
JoinFrom(sep, parts, i) ==
    IF i > Len(parts) THEN <<>>
    ELSE IF i = Len(parts) THEN parts[i]
    ELSE parts[i] \o sep \o JoinFrom(sep, parts, i + 1)

join(sep, parts) == Force(parts, LAMBDA ps : JoinFrom(sep, ps, 1))

----------------------------------------------------------------------------
(* FAQ normalisation and de-duplication: _normalize_text, _is_english,     *)
(* _add_faq                                                                *)

Decorations == {"U+2022", "U+00B7", "-", "U+2013", "U+2014", "*", "#"}

\* re.sub(r'<phrase>.*$', '', text, flags=re.IGNORECASE): cut from the
\* first occurrence of the phrase to the end
CutFrom(text, phrase) ==
    Force(text, LAMBDA t :
        Force(Find(lower(t), phrase), LAMBDA i :
            IF i = 0 THEN t ELSE Take(t, i - 1)))

\* re.sub(r'(c) \d{4}.*$', '', text)
CutFromCopyright(text) ==
    Force(text, LAMBDA t :
        Force({i \in 1..Len(t) :
                  /\ i + 5 <= Len(t)
                  /\ t[i] = "U+00A9"
                  /\ t[i + 1] = " "
                  /\ \A k \in 2..5 : t[i + k] \in Digits}, LAMBDA hits :
            IF hits = {} THEN t ELSE Take(t, Min(hits) - 1)))

\* re.sub(r'Privacy Policy.*Terms.*$', '', text, flags=re.IGNORECASE)
CutFromPrivacyTerms(text) ==
    Force(text, LAMBDA t :
        Force(lower(t), LAMBDA low :
            Force(Find(low, <<"p","r","i","v","a","c","y"," ","p","o","l","i","c","y">>), LAMBDA i :
                IF i > 0 /\ Contains(Drop(low, i + 13), <<"t","e","r","m","s">>)
                THEN Take(t, i - 1)
                ELSE t)))

\* re.sub(r'To Top$', '', text, flags=re.IGNORECASE)
CutToTop(text) ==
    Force(text, LAMBDA t :
        IF endswith(lower(t), <<"t","o"," ","t","o","p">>) THEN Take(t, Len(t) - 6) ELSE t)

\* lines 109-118, applied in the order of the source
Cleanups(text) ==
    CutToTop(
     CutFromPrivacyTerms(
      CutFrom(
       CutFromCopyright(
        CutFrom(
         CutFrom(
          strip_chars(strip(collapse_ws(text)), Decorations),
          <<"s","u","b","s","c","r","i","b","e"," ","n","e","w","s","l","e","t","t","e","r">>),
         <<"s","i","g","n"," ","u","p"," ","t","o"," ","g","e","t">>)),
       <<"a","l","l"," ","r","i","g","h","t","s"," ","r","e","s","e","r","v","e","d">>)))

normalize_text(text) ==
    Force(text, LAMBDA t : IF t = <<>> THEN <<>> ELSE strip(Cleanups(t)))

Count(s, cs) == Force(s, LAMBDA x : Cardinality({i \in 1..Len(x) : x[i] \in cs}))

\* (non_ascii / total_letters) < 0.3, in integers
BelowThreshold(non_ascii, total_letters) == 10 * non_ascii < 3 * total_letters

is_english(text) ==
    Force(text, LAMBDA t :
        IF t = <<>> THEN FALSE
        ELSE Force2(Count(t, AsciiLetters), Count(t, NonAscii),
                    LAMBDA ascii_letters, non_ascii :
                 IF ascii_letters + non_ascii = 0 THEN TRUE
                 ELSE BelowThreshold(non_ascii, ascii_letters + non_ascii)))

\* re.sub(r'^[bB]?[\"\']?', '', question)
StripStringPrefix(question) ==
    Force(question, LAMBDA q :
        Force(IF q # <<>> /\ q[1] \in {"b", "B"} THEN 1 ELSE 0, LAMBDA n1 :
            IF Len(q) > n1 /\ q[n1 + 1] \in {"\"", "'"}
            THEN Drop(q, n1 + 1)
            ELSE Drop(q, n1)))

\* re.sub(r'^\d+[\)\.\:\s]*(?=[A-Za-z])', '', question)
StripOrdinal(question) ==
    Force(question, LAMBDA q :
        Force(LeadRun(q, Digits), LAMBDA d :
            Force(LeadRun(Drop(q, d), {")", ".", ":"} \cup Whitespace), LAMBDA p :
                IF d >= 1 /\ d + p < Len(q) /\ q[d + p + 1] \in AsciiLetters
                THEN Drop(q, d + p)
                ELSE q)))

\* lines 145-146: the question as it is stored
CleanQuestion(question) == strip(StripOrdinal(strip(StripStringPrefix(question))))

\* line 147: the comparison key
DedupKey_stale(raw, cleaned) == strip(lower(raw))
DedupKey(raw, cleaned) == strip(lower(cleaned))

SkipPatterns == {<<"f","o","r","g","o","t"," ","y","o","u","r"," ","p","a","s","s","w","o","r","d">>, <<"r","e","s","e","t"," ","p","a","s","s","w","o","r","d">>, <<"s","i","g","n"," ","i","n">>, <<"l","o","g"," ","i","n">>,
                 <<"c","r","e","a","t","e"," ","a","c","c","o","u","n","t">>, <<"r","e","g","i","s","t","e","r">>, <<"s","u","b","s","c","r","i","b","e">>, <<"n","e","w","s","l","e","t","t","e","r">>,
                 <<"c","o","n","t","a","c","t"," ","u","s">>, <<"g","e","t"," ","i","n"," ","t","o","u","c","h">>}

IsNoise_never(q_normalized) == FALSE
IsNoise(q_normalized) ==
    Force(q_normalized, LAMBDA q : \E pattern \in SkipPatterns : Contains(q, pattern))

MinQuestionLen == 5

\* line 158
Accepts_no_seen(seen, q_normalized, question) ==
    q_normalized # <<>> /\ Len(question) > MinQuestionLen
Accepts(seen, q_normalized, question) ==
    /\ q_normalized # <<>>
    /\ q_normalized \notin seen
    /\ Len(question) > MinQuestionLen

\* lines 160-164
Store_front(faqs, rec) == <<rec>> \o faqs
Store(faqs, rec) == Append(faqs, rec)

\* The session state the extraction pipeline threads through its calls.
Session(faqs, seen, org, att) ==
    [all_faqs |-> faqs, seen_questions |-> seen, origin |-> org, attempts |-> att]

\* the call is recorded whatever its outcome
Attempted(st, question, answer, source_url, strategy) ==
    [st EXCEPT !.attempts = Append(@, [question |-> question, answer |-> answer,
                                       sourceUrl |-> source_url,
                                       strategy |-> strategy])]

\* lines 158-164, on the session with the call recorded
Admit(st, cleaned, q_normalized, answer, source_url, strategy) ==
    IF IsNoise(q_normalized) THEN st
    ELSE IF Accepts(st.seen_questions, q_normalized, cleaned)
    THEN Session(Store(st.all_faqs, [question |-> cleaned, answer |-> answer,
                                     sourceUrl |-> source_url]),
                 st.seen_questions \cup {q_normalized},
                 Append(st.origin, strategy),
                 st.attempts)
    ELSE st

add_faq(st, question, answer, source_url, strategy) ==
    Force(Attempted(st, question, answer, source_url, strategy), LAMBDA s1 :
        IF ~is_english(question) \/ ~is_english(answer) THEN s1
        ELSE Force(CleanQuestion(question), LAMBDA cleaned :
                 Force(DedupKey(question, cleaned), LAMBDA q_normalized :
                     Admit(s1, cleaned, q_normalized, answer, source_url, strategy))))

\* `if question and answer: self._add_faq(question, answer, url)`
Emit(st, raw_q, raw_a, url, strategy) ==
    Force2(normalize_text(raw_q), normalize_text(raw_a), LAMBDA question, answer :
        IF question # <<>> /\ answer # <<>>
        THEN add_faq(st, question, answer, url, strategy)
        ELSE st)

----------------------------------------------------------------------------
(* URLs: urllib.parse.urlparse / urljoin as the scraper uses them,         *)
(* _normalize_url, _is_valid_internal_url, _is_faq_link                    *)

SchemeChars == AsciiLetters \cup Digits \cup {"+", "-", "."}

\* the first position in s of a character of cs, Len(s) + 1 when none
FirstOf(s, cs) ==
    Force2(s, cs, LAMBDA x, set :
        Force({i \in 1..Len(x) : x[i] \in set}, LAMBDA hits :
            IF hits = {} THEN Len(x) + 1 ELSE Min(hits)))

\* s[i-1:].split(sep)
RECURSIVE SplitFrom(_, _, _)
SplitFrom(s, sep, i) ==
    Force(FirstOf(SubSeq(s, i, Len(s)), {sep}) + i - 1, LAMBDA j :
        IF j > Len(s) THEN <<SubSeq(s, i, Len(s))>>
        ELSE <<SubSeq(s, i, j - 1)>> \o SplitFrom(s, sep, j + 1))

\* s.split(sep)
split(s, sep) == Force(s, LAMBDA x : SplitFrom(x, sep, 1))

\* urlsplit: the scheme, when the text before the first colon is one
SplitScheme(url) ==
    Force(url, LAMBDA u :
        Force(FirstOf(u, {":"}), LAMBDA i :
            IF /\ i > 1 /\ i <= Len(u)
               /\ u[1] \in AsciiLetters
               /\ \A k \in 1..(i - 1) : u[k] \in SchemeChars
            THEN [found |-> TRUE, scheme |-> lower(Take(u, i - 1)), rest |-> Drop(u, i)]
            ELSE [found |-> FALSE, scheme |-> <<>>, rest |-> u]))

\* urlsplit: the netloc after "//", up to the first of "/", "?", "#"
SplitNetloc(rest) ==
    Force(rest, LAMBDA r :
        IF startswith(r, <<"/","/">>)
        THEN Force(Drop(r, 2), LAMBDA after :
                 Force(FirstOf(after, {"/", "?", "#"}) - 1, LAMBDA n :
                     [netloc |-> Take(after, n), tail |-> Drop(after, n)]))
        ELSE [netloc |-> <<>>, tail |-> r])

\* urlparse(url, scheme=default): scheme, netloc and path (the query and the
\* fragment are split off and not used by the scraper)
urlparse(url, default) ==
    Force(SplitScheme(url), LAMBDA s :
        Force(SplitNetloc(s.rest), LAMBDA n :
            [scheme |-> IF s.found THEN s.scheme ELSE default,
             netloc |-> n.netloc,
             path |-> Take(n.tail, FirstOf(n.tail, {"?", "#"}) - 1)]))

\* urljoin: `segments[1:-1] = filter(None, segments[1:-1])`
DropEmptyInside(segments) ==
    Force(segments, LAMBDA segs :
        IF Len(segs) <= 2 THEN segs
        ELSE <<segs[1]>>
             \o SelectSeq(SubSeq(segs, 2, Len(segs) - 1), LAMBDA x : x # <<>>)
             \o <<segs[Len(segs)]>>)

\* urljoin: the resolution of "." and ".." segments, from the i-th on
RECURSIVE ResolveDots(_, _, _)
ResolveDots(segments, i, resolved) ==
    IF i > Len(segments) THEN resolved
    ELSE Force(IF segments[i] = <<".",".">>
               THEN (IF resolved = <<>> THEN resolved
                     ELSE Take(resolved, Len(resolved) - 1))
               ELSE IF segments[i] = <<".">> THEN resolved
               ELSE Append(resolved, segments[i]),
               LAMBDA r : ResolveDots(segments, i + 1, r))

\* urljoin: the base path without its last segment
BaseParts(path) ==
    Force(split(path, "/"), LAMBDA base_all :
        IF base_all[Len(base_all)] # <<>>
        THEN Take(base_all, Len(base_all) - 1) ELSE base_all)

\* urljoin: the joined path of a relative reference
JoinedPath(base_path, path) ==
    Force(IF startswith(path, <<"/">>) THEN split(path, "/")
          ELSE DropEmptyInside(BaseParts(base_path) \o split(path, "/")),
          LAMBDA segments :
        Force(ResolveDots(segments, 1, <<>>), LAMBDA resolved :
            Force(join(<<"/">>, IF segments[Len(segments)] \in {<<".">>, <<".",".">>}
                             THEN Append(resolved, <<>>) ELSE resolved),
                  LAMBDA joined :
                IF joined = <<>> THEN <<"/">>
                ELSE IF startswith(joined, <<"/">>) THEN joined
                ELSE <<"/">> \o joined)))

\* urljoin, on the parsed base b and the parsed reference u
Resolve(b, u, url) ==
    IF url = <<>> THEN b
    ELSE IF u.scheme # b.scheme THEN urlparse(url, <<>>)
    ELSE IF u.netloc # <<>> THEN u
    ELSE IF u.path = <<>> THEN [u EXCEPT !.netloc = b.netloc, !.path = b.path]
    ELSE [u EXCEPT !.netloc = b.netloc, !.path = JoinedPath(b.path, u.path)]

\* urlparse(urljoin(base, url)): scheme, netloc and path of the joined URL
urljoin(base, url) ==
    Force2(urlparse(base, <<>>), url, LAMBDA b, ref :
        Force(urlparse(ref, b.scheme), LAMBDA u : Resolve(b, u, ref)))

\* scheme://netloc/path with the trailing slashes of the path removed
Rebuild(parsed) ==
    Force2(parsed, rstrip_chars(parsed.path, {"/"}), LAMBDA p, trimmed :
        p.scheme \o <<":","/","/">> \o p.netloc \o (IF trimmed = <<>> THEN <<"/">> ELSE trimmed))

normalize_url(base, url) ==
    Force(url, LAMBDA ref :
        Rebuild(IF startswith(ref, <<"h","t","t","p",":","/","/">>) \/ startswith(ref, <<"h","t","t","p","s",":","/","/">>)
                THEN urlparse(ref, <<>>)
                ELSE urljoin(base, ref)))

SkipAnywhere == {<<"u","t","m","_">>, <<"f","b","c","l","i","d">>, <<"g","c","l","i","d">>, <<"#">>, <<"j","a","v","a","s","c","r","i","p","t",":">>, <<"m","a","i","l","t","o",":">>, <<"t","e","l",":">>}
SkipSuffix == {<<".","p","d","f">>, <<".","j","p","g">>, <<".","p","n","g">>, <<".","g","i","f">>, <<".","s","v","g">>, <<".","c","s","s">>, <<".","j","s">>, <<".","z","i","p">>,
               <<".","m","p","4">>, <<".","m","p","3">>, <<".","d","o","c">>, <<".","x","l","s">>}

MaxDepth == 1

ValidParts_any_depth(domain, parsed, low, path) ==
    /\ parsed.scheme # <<>> => parsed.scheme \in {<<"h","t","t","p">>, <<"h","t","t","p","s">>}
    /\ \A pattern \in SkipAnywhere : ~Contains(low, pattern)
    /\ \A pattern \in SkipSuffix : ~endswith(low, pattern)
    /\ parsed.netloc # <<>> => parsed.netloc = domain

\* lines 34-58, on the parsed URL, its lower-cased text and its path
ValidParts(domain, parsed, low, path) ==
    /\ parsed.scheme # <<>> => parsed.scheme \in {<<"h","t","t","p">>, <<"h","t","t","p","s">>}
    /\ \A pattern \in SkipAnywhere : ~Contains(low, pattern)
    /\ \A pattern \in SkipSuffix : ~endswith(low, pattern)
    /\ parsed.netloc # <<>> => parsed.netloc = domain
    /\ path # <<>> => Len(split(path, "/")) <= MaxDepth

is_valid_internal_url(domain, url) ==
    Force2(url, urlparse(url, <<>>), LAMBDA u, parsed :
        /\ u # <<>>
        /\ Force2(lower(u), strip_chars(parsed.path, {"/"}), LAMBDA low, path :
               ValidParts(domain, parsed, low, path)))

UrlPatterns == {<<"/","f","a","q">>, <<"/","f","a","q","s">>, <<"/","f","r","e","q","u","e","n","t","l","y","-","a","s","k","e","d">>, <<"/","h","e","l","p","/","f","a","q">>, <<"/","s","u","p","p","o","r","t","/","f","a","q">>,
                <<"f","a","q",".">>, <<"/","q","u","e","s","t","i","o","n","s">>, <<"/","q","-","a","n","d","-","a">>, <<"/","q","a">>}
TextPatterns == {<<"f","a","q">>, <<"f","r","e","q","u","e","n","t","l","y"," ","a","s","k","e","d">>, <<"q","u","e","s","t","i","o","n","s">>, <<"q","&","a">>, <<"h","e","l","p"," ","c","e","n","t","e","r">>}

is_faq_link(url, link_text) ==
    Force2(lower(url), lower(link_text), LAMBDA url_lower, text_lower :
        \/ \E pattern \in UrlPatterns : Contains(url_lower, pattern)
        \/ \E pattern \in TextPatterns : Contains(text_lower, pattern))

----------------------------------------------------------------------------
(* The parsed document (BeautifulSoup).  A node is an element with its    *)
(* tag, its class and id attributes, its href (anchors), its type and     *)
(* parsed JSON content (script blocks), the text it holds directly, and   *)
(* its child elements.  A document is the sequence of its top-level       *)
(* elements.                                                               *)

NoJson == [valid |-> FALSE]

Node(tag, cls, id, href, type, json, text, kids) ==
    [tag |-> tag, cls |-> cls, id |-> id, href |-> href, type |-> type,
     json |-> json, text |-> text, kids |-> kids]

\* <tag>text</tag>
Leaf(tag, text) == Node(tag, <<>>, <<>>, <<>>, <<>>, NoJson, text, <<>>)
\* <tag class="cls">kids</tag>
Box(tag, cls, kids) == Node(tag, cls, <<>>, <<>>, <<>>, NoJson, <<>>, kids)
\* <tag class="cls">text</tag>
ClassLeaf(tag, cls, text) == Node(tag, cls, <<>>, <<>>, <<>>, NoJson, text, <<>>)
\* <tag id="id">kids</tag>
IdBox(tag, id, kids) == Node(tag, <<>>, id, <<>>, <<>>, NoJson, <<>>, kids)
\* <a href="href">text</a>
Anchor(href, text) == Node("a", <<>>, <<>>, href, <<>>, NoJson, text, <<>>)
\* <script type="type">json</script>
Script(type, json) == Node("script", <<>>, <<>>, <<>>, type, json, <<>>, <<>>)

HeadingTags == {"h1", "h2", "h3", "h4", "h5", "h6"}

\* int(heading.name[1])
HeadingLevel(tag) ==
    CASE tag = "h1" -> 1 [] tag = "h2" -> 2 [] tag = "h3" -> 3
      [] tag = "h4" -> 4 [] tag = "h5" -> 5 [] tag = "h6" -> 6

\* Every element of a forest in document order, each with the sibling list
\* it stands in and its index there (what find_next_sibling walks).
RECURSIVE Positions(_)
RECURSIVE PositionsFrom(_, _)
PositionsFrom(sibs, i) ==
    IF i > Len(sibs) THEN <<>>
    ELSE <<[sibs |-> sibs, idx |-> i]>> \o Positions(sibs[i].kids)
         \o PositionsFrom(sibs, i + 1)
Positions(sibs) == Force(sibs, LAMBDA x : PositionsFrom(x, 1))

At(pos) == pos.sibs[pos.idx]

\* the siblings after a position: repeated find_next_sibling()
NextSiblings(pos) == Force(pos, LAMBDA x : SubSeq(x.sibs, x.idx + 1, Len(x.sibs)))

\* soup.find_all / elem.find_all: the descendants, in document order
Descendants(sibs) == Force(Positions(sibs), LAMBDA ps : [i \in 1..Len(ps) |-> At(ps[i])])

SelectTag(nodes, tags) == SelectSeq(nodes, LAMBDA n : n.tag \in tags)

find_all(elem, tags) == SelectTag(Descendants(elem.kids), tags)

\* the concatenation of a sequence of sequences
Flatten(seqs) == join(<<>>, seqs)

\* get_text(strip=True): the stripped, non-empty strings, joined by ""
RECURSIVE get_text_strip(_)
get_text_strip(elem) ==
    Force(elem, LAMBDA e :
        strip(e.text) \o Flatten([i \in 1..Len(e.kids) |-> get_text_strip(e.kids[i])]))

\* get_text(): every string as it is
RECURSIVE get_text(_)
get_text(elem) ==
    Force(elem, LAMBDA e :
        e.text \o Flatten([i \in 1..Len(e.kids) |-> get_text(e.kids[i])]))

\* for element in soup(["script", "style", "noscript", "iframe"]): element.decompose()
StrippedTags == {"script", "style", "noscript", "iframe"}

RECURSIVE decompose(_)
decompose(nodes) ==
    Force(SelectSeq(nodes, LAMBDA n : n.tag \notin StrippedTags), LAMBDA kept :
        [i \in 1..Len(kept) |-> [kept[i] EXCEPT !.kids = decompose(@)]])

----------------------------------------------------------------------------
(* Section location and the extraction strategies                          *)

FaqHeadingPatterns ==
    {<<"f","a","q">>, <<"f","a","q","s">>, <<"f",".","a",".","q">>, <<"f",".","a",".","q",".","s">>, <<"f","r","e","q","u","e","n","t","l","y"," ","a","s","k","e","d"," ","q","u","e","s","t","i","o","n","s">>,
     <<"f","r","e","q","u","e","n","t","l","y"," ","a","s","k","e","d">>, <<"c","o","m","m","o","n"," ","q","u","e","s","t","i","o","n","s">>, <<"q","u","e","s","t","i","o","n","s"," ","&"," ","a","n","s","w","e","r","s">>,
     <<"q","u","e","s","t","i","o","n","s"," ","a","n","d"," ","a","n","s","w","e","r","s">>, <<"q","&","a">>, <<"q"," ","&"," ","a">>, <<"h","a","v","e"," ","q","u","e","s","t","i","o","n","s">>, <<"g","o","t"," ","q","u","e","s","t","i","o","n","s">>}

is_faq_heading(text) ==
    Force(strip(lower(text)), LAMBDA text_lower :
        \E pattern \in FaqHeadingPatterns : Contains(text_lower, pattern))

\* the `heading` of a section found by class or id
NoHeading == Leaf("", <<>>)

\* the sequence up to its first element that satisfies Stop
TakeUntil(seq, Stop(_)) ==
    Force(seq, LAMBDA x :
        Force({i \in 1..Len(x) : Stop(x[i])}, LAMBDA stops :
            IF stops = {} THEN x ELSE Take(x, Min(stops) - 1)))

\* lines 186-197: the siblings after the heading, up to the next heading of
\* the same or a higher level
SectionContent(sibs, heading_level) ==
    TakeUntil(sibs, LAMBDA current :
        current.tag \in HeadingTags /\ HeadingLevel(current.tag) <= heading_level)

\* lines 182-203, for the heading at one position
SectionAt(pos) ==
    Force(At(pos), LAMBDA heading :
        [heading |-> heading,
         content |-> IF is_faq_heading(get_text_strip(heading))
                     THEN SectionContent(NextSiblings(pos), HeadingLevel(heading.tag))
                     ELSE <<>>])

\* lines 182-203
HeadingSections(ps) ==
    Force(SelectSeq(ps, LAMBDA pos : At(pos).tag \in HeadingTags), LAMBDA hs :
        SelectSeq([i \in 1..Len(hs) |-> SectionAt(hs[i])],
                  LAMBDA section : section.content # <<>>))

ContainerTags == {"section", "div", "article"}

\* find_all(['section', 'div', 'article'], class_=... / id=...)
IsFaqContainer(container, byId) ==
    Force(IF byId THEN container.id ELSE container.cls, LAMBDA attr :
        /\ container.tag \in ContainerTags
        /\ attr # <<>>
        /\ is_faq_heading(attr))

\* lines 206-215 and 218-227: `container not in [s.get('heading') ...]`
RECURSIVE ContainerSections(_, _, _)
ContainerSections(containers, i, found) ==
    IF i > Len(containers) THEN found
    ELSE Force(IF \A k \in 1..Len(found) : found[k].heading # containers[i]
               THEN Append(found, [heading |-> NoHeading,
                                   content |-> <<containers[i]>>])
               ELSE found,
               LAMBDA faq_sections : ContainerSections(containers, i + 1, faq_sections))

find_faq_sections(soup) ==
    Force2(Positions(soup), Descendants(soup), LAMBDA ps, all :
        Force2(SelectSeq(all, LAMBDA n : IsFaqContainer(n, FALSE)),
               SelectSeq(all, LAMBDA n : IsFaqContainer(n, TRUE)),
               LAMBDA faq_containers, faq_by_id :
            Force(ContainerSections(faq_containers, 1, HeadingSections(ps)),
                  LAMBDA by_class : ContainerSections(faq_by_id, 1, by_class))))

\* ---- the candidates a strategy hands to the shared tail ----

\* A candidate pair and how it is let through: `checked` is the
\* len(answer) > 20 test of the strategies that normalise before testing.
Cand(question, answer, strategy, checked) ==
    [question |-> question, answer |-> answer, strategy |-> strategy,
     checked |-> checked]

NoCand == Cand(<<>>, <<>>, "", FALSE)

Somes(cands) == SelectSeq(cands, LAMBDA c : c # NoCand)

MinAnswerLen == 20

\* `if question and answer and len(answer) > 20: self._add_faq(...)`
EmitLong_any(st, question, answer, url, strategy) ==
    IF question # <<>> /\ answer # <<>>
    THEN add_faq(st, question, answer, url, strategy)
    ELSE st
EmitLong(st, question, answer, url, strategy) ==
    IF question # <<>> /\ answer # <<>> /\ Len(answer) > MinAnswerLen
    THEN add_faq(st, question, answer, url, strategy)
    ELSE st

\* the tail of a strategy on one candidate
Apply(st, c, url) ==
    IF c.checked
    THEN EmitLong(st, c.question, c.answer, url, c.strategy)
    ELSE Emit(st, c.question, c.answer, url, c.strategy)

\* the candidates of a strategy, in the order the loop visits them
RECURSIVE EmitFrom(_, _, _, _)
EmitFrom(st, cands, i, url) ==
    IF i > Len(cands) THEN st
    ELSE Force(Apply(st, cands[i], url), LAMBDA s : EmitFrom(s, cands, i + 1, url))

EmitAll(st, cands, url) == Force2(st, cands, LAMBDA s, cs : EmitFrom(s, cs, 1, url))

\* ---- structured data (JSON-LD) ----

LdJson == <<"a","p","p","l","i","c","a","t","i","o","n","/","l","d","+","j","s","o","n">>

\* a parsed JSON-LD block: a dict with '@type' and 'mainEntity'
JsonDoc(type, mainEntity) ==
    [valid |-> TRUE, type |-> type, mainEntity |-> mainEntity]
\* an entry of mainEntity: '@type', 'name', acceptedAnswer.text
JsonItem(type, name, text) == [type |-> type, name |-> name, text |-> text]

SchemaItems(items) ==
    Force(SelectSeq(items, LAMBDA item : item.type = "Question"), LAMBDA qs :
        [i \in 1..Len(qs) |-> Cand(qs[i].name, qs[i].text, "schema", FALSE)])

IsFaqSchema(script) ==
    /\ script.tag = "script"
    /\ script.type = LdJson
    /\ script.json.valid
    /\ script.json.type = "FAQPage"

SchemaScripts(soup) ==
    Force(SelectSeq(Descendants(soup), IsFaqSchema), LAMBDA scripts :
        Flatten([i \in 1..Len(scripts) |-> SchemaItems(scripts[i].json.mainEntity)]))

extract_schema_faqs(st, soup, url) == EmitAll(st, SchemaScripts(soup), url)

\* ---- pattern 1: details/summary ----

\* lines 312-315: the texts of the children other than the summary
ChildTexts(kids, summary) ==
    Force(SelectSeq(kids, LAMBDA child : child # summary), LAMBDA others :
        [i \in 1..Len(others) |-> get_text_strip(others[i])])

AccordionAt(details) ==
    Force(find_all(details, {"summary"}), LAMBDA summaries :
        IF summaries = <<>> THEN NoCand
        ELSE Cand(get_text_strip(summaries[1]),
                  join(<<" ">>, ChildTexts(details.kids, summaries[1])),
                  "accordion", FALSE))

Accordion(elem) ==
    Force(find_all(elem, {"details"}), LAMBDA ds :
        Somes([i \in 1..Len(ds) |-> AccordionAt(ds[i])]))

\* ---- pattern 2: class-based containers ----

ClassHas(elem, words) ==
    elem.cls # <<>> /\ \E w \in words : Contains(lower(elem.cls), w)

SelectClass(nodes, words) == SelectSeq(nodes, LAMBDA n : ClassHas(n, words))

QaContainerWords == {<<"f","a","q">>, <<"q","u","e","s","t","i","o","n">>, <<"q","a","-">>, <<"a","c","c","o","r","d","i","o","n","-","i","t","e","m">>}
QuestionWords == {<<"q","u","e","s","t","i","o","n">>, <<"t","i","t","l","e">>, <<"h","e","a","d","e","r">>, <<"t","r","i","g","g","e","r">>}
AnswerWords == {<<"a","n","s","w","e","r">>, <<"c","o","n","t","e","n","t">>, <<"b","o","d","y">>, <<"p","a","n","e","l">>}

ClassContainerAt(container) ==
    Force(Descendants(container.kids), LAMBDA inside :
        Force2(SelectClass(inside, QuestionWords), SelectClass(inside, AnswerWords),
               LAMBDA q_elems, a_elems :
            IF q_elems # <<>> /\ a_elems # <<>>
            THEN Cand(get_text_strip(q_elems[1]), get_text_strip(a_elems[1]),
                      "class", FALSE)
            ELSE NoCand))

ClassContainers(elem) ==
    Force(SelectClass(find_all(elem, {"div", "li", "article"}), QaContainerWords),
          LAMBDA qa_containers :
        Somes([i \in 1..Len(qa_containers) |-> ClassContainerAt(qa_containers[i])]))

\* ---- pattern 3: heading + following content ----

\* lines 344-351: texts of the p/div siblings up to the next heading
FollowingTexts(sibs) ==
    Force(TakeUntil(sibs, LAMBDA next_elem : next_elem.tag \in HeadingTags),
          LAMBDA run :
        SelectSeq([i \in 1..Len(run) |->
                      IF run[i].tag \in {"p", "div"} THEN get_text_strip(run[i])
                      ELSE <<>>],
                  LAMBDA text : text # <<>>))

\* re.sub(r'^\d+\.\s*', '', question)
StripNumbering(question) ==
    Force(question, LAMBDA q :
        Force(LeadRun(q, Digits), LAMBDA d :
            IF d >= 1 /\ d < Len(q) /\ q[d + 1] = "."
            THEN lstrip_chars(Drop(q, d + 1), Whitespace)
            ELSE q))

SubHeadingAt(pos) ==
    Force(get_text_strip(At(pos)), LAMBDA heading_text :
        IF is_faq_heading(heading_text) THEN NoCand
        ELSE Cand(StripNumbering(normalize_text(heading_text)),
                  normalize_text(join(<<" ">>, FollowingTexts(NextSiblings(pos)))),
                  "heading", TRUE))

SubHeadings(elem) ==
    Force(SelectSeq(Positions(elem.kids),
                    LAMBDA pos : At(pos).tag \in {"h3", "h4", "h5", "h6"}),
          LAMBDA hs : Somes([i \in 1..Len(hs) |-> SubHeadingAt(hs[i])]))

\* ---- pattern 4: definition lists ----

\* the lesser of two numbers
Least(a, b) == IF a <= b THEN a ELSE b

DtDd(dl) ==
    Force2(find_all(dl, {"dt"}), find_all(dl, {"dd"}), LAMBDA dts, dds :
        [i \in 1..Least(Len(dts), Len(dds)) |->
            Cand(get_text_strip(dts[i]), get_text_strip(dds[i]), "dl", FALSE)])

DefinitionLists(elem) ==
    Force(find_all(elem, {"dl"}), LAMBDA dls :
        Flatten([i \in 1..Len(dls) |-> DtDd(dls[i])]))

\* ---- pattern 5: markdown-style markers ----
\* pattern        = FAQ\s*Question\s*\d*\.?\s*([^\n]+?)(?:\n|FAQ\s*Answer)
\* answer_pattern = FAQ\s*Answer\s*\d*\.?\s*([^#]+?)(?=FAQ\s*Question|\Z|####)
\* both case-insensitive.  `text` is the text, `low` its lower-cased form.

WsRun(text, k) == LeadRun(Drop(text, k - 1), Whitespace)
DigitRun(text, k) == LeadRun(Drop(text, k - 1), Digits)

\* FAQ\s*<word> at position i: the position after it, 0 when it is not there
MarkerEnd(low, i, word) ==
    IF MatchAt(low, <<"f","a","q">>, i)
    THEN Force(i + 3 + WsRun(low, i + 3), LAMBDA j :
             IF MatchAt(low, word, j) THEN j + Len(word) ELSE 0)
    ELSE 0

GroupAllows(c, isQuestion) == IF isQuestion THEN c # "\n" ELSE c # "#"

\* what must follow the captured group, at position t
Terminates(text, low, t, isQuestion) ==
    IF isQuestion
    THEN (t <= Len(text) /\ text[t] = "\n") \/ MarkerEnd(low, t, <<"a","n","s","w","e","r">>) > 0
    ELSE \/ MarkerEnd(low, t, <<"q","u","e","s","t","i","o","n">>) > 0
         \/ t = Len(text) + 1
         \/ MatchAt(text, <<"#","#","#","#">>, t)

\* where the match ends: the question pattern consumes its terminator, the
\* answer pattern only looks ahead
EndAfter(text, low, t, isQuestion) ==
    IF isQuestion
    THEN IF t <= Len(text) /\ text[t] = "\n" THEN t + 1
         ELSE MarkerEnd(low, t, <<"a","n","s","w","e","r">>)
    ELSE t

\* the length of the longest run from k on that the group allows
GroupRun(text, k, isQuestion) ==
    Force({m \in k..Len(text) : ~GroupAllows(text[m], isQuestion)}, LAMBDA out :
        IF out = {} THEN Len(text) + 1 - k ELSE Min(out) - k)

\* the ends t of a group that starts at k (lazy: the least is taken)
GroupStops(text, low, k, isQuestion) ==
    {t \in (k + 1)..(k + GroupRun(text, k, isQuestion)) :
        Terminates(text, low, t, isQuestion)}

\* the ways \s*\d*\.?\s* can match at j, as <<spaces, digits, dot, spaces>>
NumberingSplits(text, j) ==
    UNION {UNION {UNION {{<<a, b, c, d>> : d \in 0..WsRun(text, j + a + b + c)} :
                         c \in IF j + a + b <= Len(text) /\ text[j + a + b] = "."
                               THEN {0, 1} ELSE {0}} :
                  b \in 0..DigitRun(text, j + a)} :
           a \in 0..WsRun(text, j)}

\* greedy quantifiers: the regex engine prefers the longer match, leftmost
\* quantifier first
Prefers(x, y) ==
    \/ x[1] > y[1]
    \/ x[1] = y[1] /\ x[2] > y[2]
    \/ x[1] = y[1] /\ x[2] = y[2] /\ x[3] > y[3]
    \/ x[1] = y[1] /\ x[2] = y[2] /\ x[3] = y[3] /\ x[4] >= y[4]

NoMatch == [ok |-> FALSE]

\* the match whose group starts at k
MatchFrom(text, low, k, isQuestion) ==
    Force(Min(GroupStops(text, low, k, isQuestion)), LAMBDA t :
        [ok |-> TRUE, group |-> SubSeq(text, k, t - 1),
         end |-> EndAfter(text, low, t, isQuestion)])

\* the match of one of the two patterns at position i
MatchMarker(text, low, i, isQuestion) ==
    Force(MarkerEnd(low, i, IF isQuestion THEN <<"q","u","e","s","t","i","o","n">> ELSE <<"a","n","s","w","e","r">>), LAMBDA j :
        IF j = 0 THEN NoMatch
        ELSE Force({x \in NumberingSplits(text, j) :
                       GroupStops(text, low, j + x[1] + x[2] + x[3] + x[4],
                                  isQuestion) # {}},
                   LAMBDA good :
                 IF good = {} THEN NoMatch
                 ELSE Force(CHOOSE x \in good : \A y \in good : Prefers(x, y),
                            LAMBDA best :
                          MatchFrom(text, low, j + best[1] + best[2] + best[3] + best[4],
                                    isQuestion))))

\* re.findall: the leftmost match from i on, then on from its end
RECURSIVE findall_marker(_, _, _, _)
findall_marker(text, low, i, isQuestion) ==
    Force({p \in i..Len(text) : MatchMarker(text, low, p, isQuestion).ok}, LAMBDA hits :
        IF hits = {} THEN <<>>
        ELSE Force(MatchMarker(text, low, Min(hits), isQuestion), LAMBDA m :
                 <<m.group>> \o findall_marker(text, low, m.end, isQuestion)))

MarkerPairs(questions, answers) ==
    [i \in 1..Least(Len(questions), Len(answers)) |->
        Cand(normalize_text(questions[i]), normalize_text(answers[i]),
             "markdown", TRUE)]

Markdown(elem) ==
    Force(get_text(elem), LAMBDA text :
        Force(lower(text), LAMBDA low :
            Force2(findall_marker(text, low, 1, TRUE),
                   findall_marker(text, low, 1, FALSE),
                   MarkerPairs)))

\* ---- pattern 6 and _extract_from_paragraph_list: paragraph pairs ----

QuestionWordsLead ==
    {<<"c","a","n"," ">>, <<"d","o"," ">>, <<"d","o","e","s"," ">>, <<"i","s"," ">>, <<"a","r","e"," ">>, <<"h","o","w"," ">>, <<"w","h","a","t"," ">>, <<"w","h","y"," ">>,
     <<"w","h","e","n"," ">>, <<"w","h","e","r","e"," ">>, <<"w","i","l","l"," ">>, <<"s","h","o","u","l","d"," ">>}

LooksLikeQuestion(p_text) ==
    Force2(p_text, lower(p_text), LAMBDA t, low :
        \/ endswith(t, <<"?">>)
        \/ \E w \in QuestionWordsLead : startswith(low, w))

\* the index of the next question paragraph after i, Len + 1 when none
NextQuestion(texts, i) ==
    Force({j \in (i + 1)..Len(texts) : LooksLikeQuestion(texts[j])}, LAMBDA later :
        IF later = {} THEN Len(texts) + 1 ELSE Min(later))

\* the loop `while i < limit` over the paragraph texts (i is 1-based here)
RECURSIVE ParagraphPairs(_, _, _)
ParagraphPairs(texts, i, limit) ==
    IF i > limit THEN <<>>
    ELSE IF LooksLikeQuestion(texts[i])
    THEN Force(NextQuestion(texts, i), LAMBDA j :
             <<Cand(normalize_text(texts[i]),
                    normalize_text(join(<<" ">>, SubSeq(texts, i + 1, j - 1))),
                    "paragraph", TRUE)>>
             \o ParagraphPairs(texts, j, limit))
    ELSE ParagraphPairs(texts, i + 1, limit)

TextsOf(nodes) == Force(nodes, LAMBDA ns : [i \in 1..Len(ns) |-> get_text_strip(ns[i])])

extract_from_paragraph_list(st, paragraphs, url) ==
    Force(TextsOf(paragraphs), LAMBDA texts :
        EmitAll(st, ParagraphPairs(texts, 1, Len(texts)), url))

\* ---- _extract_from_faq_element: the six patterns in order ----

Paragraphs(elem) ==
    Force(TextsOf(find_all(elem, {"p"})), LAMBDA texts :
        ParagraphPairs(texts, 1, Len(texts) - 1))

extract_from_faq_element(st, elem, url) ==
    Force(elem, LAMBDA e :
        EmitAll(st, Accordion(e) \o ClassContainers(e) \o SubHeadings(e)
                    \o DefinitionLists(e) \o Markdown(e) \o Paragraphs(e),
                url))

\* ---- _extract_faqs_from_page ----

\* lines 252-256: the elements of a section that are not paragraphs
RECURSIVE SectionElements(_, _, _, _)
SectionElements(st, content_elements, i, url) ==
    IF i > Len(content_elements) THEN st
    ELSE Force(IF content_elements[i].tag = "p" THEN st
               ELSE extract_from_faq_element(st, content_elements[i], url),
               LAMBDA s : SectionElements(s, content_elements, i + 1, url))

\* lines 246-260: one section
Section(st, section, url) ==
    Force(section.content, LAMBDA content_elements :
        Force2(SectionElements(st, content_elements, 1, url),
               SelectTag(content_elements, {"p"}),
               LAMBDA s, all_paragraphs :
            IF all_paragraphs # <<>>
            THEN extract_from_paragraph_list(s, all_paragraphs, url)
            ELSE s))

RECURSIVE Sections(_, _, _, _)
Sections(st, faq_sections, i, url) ==
    IF i > Len(faq_sections) THEN st
    ELSE Force(Section(st, faq_sections[i], url),
               LAMBDA s : Sections(s, faq_sections, i + 1, url))

extract_faqs_from_page(st, soup, url) ==
    Force2(soup, url, LAMBDA page, u :
        Force2(extract_schema_faqs(st, page, u), find_faq_sections(page),
               LAMBDA s, faq_sections : Sections(s, faq_sections, 1, u)))

----------------------------------------------------------------------------
(* Link extraction and the fetch                                           *)

\* lines 74-77: one anchor with an href, as (url, text)
LinkOf(a, base) ==
    [url |-> normalize_url(base, a.href), text |-> lower(get_text_strip(a))]

\* lines 73-79: the anchors, normalised, valid, not yet visited
ValidLinks(anchors, base, domain, visited) ==
    SelectSeq([i \in 1..Len(anchors) |-> LinkOf(anchors[i], base)],
              LAMBDA link : is_valid_internal_url(domain, link.url)
                            /\ link.url \notin visited)

\* lines 81-86: the first link of every URL
UniqueLinks(links) ==
    Force(links, LAMBDA ls :
        Force({i \in 1..Len(ls) : \A k \in 1..(i - 1) : ls[k].url # ls[i].url},
              LAMBDA firsts :
            SelectSeq([i \in 1..Len(ls) |-> IF i \in firsts THEN ls[i] ELSE <<>>],
                      LAMBDA link : link # <<>>)))

Domain(base) == urlparse(base, <<>>).netloc

extract_links_with_text(soup, base, visited) ==
    Force2(SelectTag(Descendants(soup), {"a"}), Domain(base), LAMBDA anchors, domain :
        UniqueLinks(ValidLinks(anchors, base, domain, visited)))

\* the result None of a failed fetch
FetchFailed == [ok |-> FALSE, soup |-> <<>>, links |-> <<>>]

\* _fetch_page_sync: `up` is whether the GET answers (no exception, no
\* timeout); a URL the site does not serve answers with a status >= 400
fetch_page_sync(web, url, up, base, visited) ==
    IF ~up \/ url \notin DOMAIN web THEN FetchFailed
    ELSE Force(decompose(web[url]), LAMBDA soup :
             [ok |-> TRUE, soup |-> soup,
              links |-> extract_links_with_text(soup, base, visited)])

----------------------------------------------------------------------------
(* A session that is handed candidates one at a time: the tail every       *)
(* extraction strategy shares (normalise both texts, drop the pair when    *)
(* either is empty, call _add_faq).                                        *)

MaxCalls == 2

RawQuestions ==
    {<<"R","e","f","u","n","d","?">>, <<"R","E","F","U","N","D","?">>, <<"1",")"," ","R","e","f","u","n","d","?">>, <<"b","'","R","e","f","u","n","d","?">>, <<"W","h","y","?">>, <<"B","c","d","U+00E9","?","?","?">>,
     <<"U+4E2D","U+6587","U+4E2D","U+6587","U+4E2D","U+6587">>, <<"S","i","g","n"," ","I","n"," ","h","e","l","p">>, <<"B","i","l","l","i","n","g","?">>, <<"-"," ","R","e","f","u","n","d","?"," ","T","o"," ","T","o","p">>,
     <<"1","2","."," ","W","h","a","t"," ","i","s"," ","i","t","?">>, <<"3"," ">>}

UrlRoot == <<"h","t","t","p","s",":","/","/","x",".","i","o">>
UrlFaq == <<"h","t","t","p","s",":","/","/","x",".","i","o","/","f","a","q">>

RawAnswers ==
    {[text |-> <<"Y","e","s",".">>, url |-> UrlRoot],
     [text |-> <<" ","N","o",","," "," ","n","e","v","e","r","."," ">>, url |-> UrlFaq],
     [text |-> <<"U+4E2D","U+6587","U+4E2D","U+6587">>, url |-> UrlRoot]}

EmptySession == Session(<<>>, {}, <<>>, <<>>)
CurrentSession == Session(all_faqs, seen_questions, origin, attempts)

SetSession(st) ==
    /\ all_faqs' = st.all_faqs
    /\ seen_questions' = st.seen_questions
    /\ origin' = st.origin
    /\ attempts' = st.attempts

CrawlIdle ==
    UNCHANGED <<pc, base_url, max_pages, site, url_arg, url_ret, visited_urls,
                faq_page_found, all_links_with_text, faq_links, to_crawl,
                fetch_log>>

InitAdd ==
    /\ pc = "add"
    /\ base_url = UrlRoot
    /\ max_pages = 0
    /\ site = <<>>
    /\ visited_urls = {}
    /\ all_faqs = <<>>
    /\ seen_questions = {}
    /\ faq_page_found = FALSE
    /\ all_links_with_text = <<>>
    /\ faq_links = <<>>
    /\ to_crawl = <<>>
    /\ origin = <<>>
    /\ fetch_log = <<>>
    /\ attempts = <<>>
    /\ url_arg = <<>>
    /\ url_ret = <<>>

EmitCandidate ==
    /\ pc = "add"
    /\ Len(attempts) < MaxCalls
    /\ \E raw_q \in RawQuestions, raw_a \in RawAnswers :
          SetSession(Emit(CurrentSession, raw_q, raw_a.text, raw_a.url, "direct"))
    /\ CrawlIdle

NextAdd == EmitCandidate

SpecAdd == InitAdd /\ [][NextAdd]_vars

----------------------------------------------------------------------------
(* One page, fetched and extracted: _fetch_page_sync followed by           *)
(* _extract_faqs_from_page, over a family of pages that carry one or two   *)
(* question/answer pairs in the markup of each strategy.                   *)

PageQuestions == {<<"W","h","a","t"," ","i","s"," ","i","t","?">>, <<"2","."," ","I","s"," ","i","t"," ","f","r","e","e","?">>}

Answer4 == <<"Y","e","s",".">>
Answer20 == <<"Y","e","s",","," ","i","t"," ","i","s"," ","f","r","e","e"," ","n","o","w",".">>
Answer21 == <<"Y","e","s",","," ","i","t"," ","i","s"," ","f","r","e","e"," ","n","o","w","!","!">>
PageAnswers == {Answer4, Answer20, Answer21}

ItemKinds == {"schema", "accordion", "class", "heading", "dl", "markdown",
              "paragraph", "nested"}

\* the markup of one question/answer pair
Item(kind, q, a) ==
    CASE kind = "schema" ->
            <<Script(LdJson, JsonDoc("FAQPage", <<JsonItem("Question", q, a)>>))>>
      [] kind = "accordion" ->
            <<Box("div", <<>>, <<Box("details", <<>>, <<Leaf("summary", q), Leaf("div", a)>>)>>)>>
      [] kind = "class" ->
            <<Box("div", <<>>, <<Box("li", <<"f","a","q","-","i","t","e","m">>,
                  <<ClassLeaf("span", <<"i","t","e","m","-","t","i","t","l","e">>, q), ClassLeaf("div", <<"i","t","e","m","-","b","o","d","y">>, a)>>)>>)>>
      [] kind = "heading" ->
            <<Box("div", <<>>, <<Leaf("h3", q), Leaf("p", a)>>)>>
      [] kind = "dl" ->
            <<Box("div", <<>>, <<Box("dl", <<>>, <<Leaf("dt", q), Leaf("dd", a)>>)>>)>>
      [] kind = "markdown" ->
            <<Box("div", <<>>, <<Leaf("pre",
                  <<"F","A","Q"," ","Q","u","e","s","t","i","o","n"," ","1","."," ">> \o q \o <<"\n","F","A","Q"," ","A","n","s","w","e","r"," ","1","."," ">> \o a)>>)>>
      [] kind = "paragraph" ->
            <<Leaf("p", q), Leaf("p", a)>>
      [] kind = "nested" ->
            <<Box("div", <<>>, <<Leaf("p", q), Leaf("p", a)>>)>>

WrapKinds == {"h2", "class", "id", "none"}

\* how the page marks its FAQ section, if it does
Wrap(wrap, items) ==
    CASE wrap = "h2" -> <<Leaf("h2", <<"F","r","e","q","u","e","n","t","l","y"," ","A","s","k","e","d"," ","Q","u","e","s","t","i","o","n","s">>)>> \o items
      [] wrap = "class" -> <<Box("section", <<"p","a","g","e"," ","f","a","q","-","s","e","c","t","i","o","n">>, items)>>
      [] wrap = "id" -> <<IdBox("div", <<"f","a","q","s">>, items)>>
      [] wrap = "none" -> <<Leaf("h1", <<"W","e","l","c","o","m","e">>)>> \o items

OneItemPages ==
    {Wrap(w, Item(k, q, a)) : w \in WrapKinds, k \in ItemKinds,
                              q \in PageQuestions, a \in PageAnswers}

\* two pairs with the same question
TwoItemPages ==
    {Wrap(w, Item(k, q, a1) \o Item(k, q, a2)) :
        w \in WrapKinds, k \in ItemKinds, q \in PageQuestions,
        a1 \in PageAnswers, a2 \in PageAnswers}

PageDocs == OneItemPages \cup TwoItemPages

InitPage ==
    /\ pc = "page"
    /\ base_url = UrlRoot
    /\ max_pages = 0
    /\ site \in {(UrlFaq :> doc) : doc \in PageDocs}
    /\ visited_urls = {}
    /\ all_faqs = <<>>
    /\ seen_questions = {}
    /\ faq_page_found = FALSE
    /\ all_links_with_text = <<>>
    /\ faq_links = <<>>
    /\ to_crawl = <<>>
    /\ origin = <<>>
    /\ fetch_log = <<>>
    /\ attempts = <<>>
    /\ url_arg = <<>>
    /\ url_ret = <<>>

\* what one fetched page adds to the session (lines 513-516)
PageFaqs(st, result, url) ==
    IF result.ok THEN extract_faqs_from_page(st, result.soup, url) ELSE st

LogEntry(url, phase, result, before, after) ==
    [url |-> url, phase |-> phase, ok |-> result.ok,
     added |-> Len(after.all_faqs) - Len(before.all_faqs)]

FetchAndExtract ==
    /\ pc = "page"
    /\ \E up \in BOOLEAN :
       \E result \in {fetch_page_sync(site, UrlFaq, up, base_url, visited_urls)} :
       \E st \in {PageFaqs(CurrentSession, result, UrlFaq)} :
          /\ SetSession(st)
          /\ fetch_log' = Append(fetch_log,
                                 LogEntry(UrlFaq, "page", result, CurrentSession, st))
    /\ pc' = "extracted"
    /\ UNCHANGED <<base_url, max_pages, site, url_arg, url_ret, visited_urls,
                   faq_page_found, all_links_with_text, faq_links, to_crawl>>

NextPage == FetchAndExtract

SpecPage == InitPage /\ [][NextPage]_vars

----------------------------------------------------------------------------
(* The crawl: __init__ and scrape_sync.  One step of the session is one    *)
(* page: the homepage, a FAQ link, or a link of the frontier.              *)

MaxPagesBound == 4

UrlRootSlash == <<"h","t","t","p","s",":","/","/","x",".","i","o","/">>
UrlHelp == <<"h","t","t","p","s",":","/","/","x",".","i","o","/","h","e","l","p">>
UrlSupport == <<"h","t","t","p","s",":","/","/","x",".","i","o","/","s","u","p","p","o","r","t">>
UrlAbout == <<"h","t","t","p","s",":","/","/","x",".","i","o","/","a","b","o","u","t">>
UrlBlog == <<"h","t","t","p","s",":","/","/","x",".","i","o","/","b","l","o","g">>
UrlTeam == <<"h","t","t","p","s",":","/","/","x",".","i","o","/","t","e","a","m">>
UrlNews == <<"h","t","t","p","s",":","/","/","x",".","i","o","/","n","e","w","s">>

WebsiteUrls == {UrlRootSlash}

Question1 == <<"W","h","a","t"," ","i","s"," ","i","t","?">>
Question2 == <<"I","s"," ","i","t"," ","f","r","e","e","?">>

\* <nav> with the given anchors
Nav(anchors) == <<Box("nav", <<>>, anchors)>>

\* a page with a FAQ heading and one accordion pair
FaqBody(q) == Wrap("h2", Item("accordion", q, Answer21))

\* a page with nothing to extract
Plain == <<Leaf("p", <<"N","o","t","h","i","n","g"," ","t","o"," ","s","e","e"," ","h","e","r","e",".">>)>>

\* one FAQ link on the homepage
SiteOne ==
    (UrlRoot :> Nav(<<Anchor(<<"/","f","a","q">>, <<"F","A","Q">>), Anchor(<<"/","a","b","o","u","t">>, <<"A","b","o","u","t">>)>>))
    @@ (UrlFaq :> FaqBody(Question1) \o Nav(<<Anchor(<<"/">>, <<"H","o","m","e">>)>>))
    @@ (UrlAbout :> Plain)

\* two FAQ links on the homepage, one by its text only
SiteTwo ==
    (UrlRoot :> Nav(<<Anchor(<<"/","f","a","q">>, <<"F","A","Q">>), Anchor(<<"/","h","e","l","p">>, <<"H","e","l","p"," ","C","e","n","t","e","r">>),
                      Anchor(<<"/","a","b","o","u","t">>, <<"A","b","o","u","t">>)>>))
    @@ (UrlFaq :> FaqBody(Question1))
    @@ (UrlHelp :> FaqBody(Question2))
    @@ (UrlAbout :> Plain)

\* the anchor with the text "FAQ" comes after another anchor of the same URL
SiteShadow ==
    (UrlRoot :> Nav(<<Anchor(<<"/","s","u","p","p","o","r","t">>, <<"S","u","p","p","o","r","t">>), Anchor(<<"/","s","u","p","p","o","r","t">>, <<"F","A","Q">>),
                      Anchor(<<"/","a","b","o","u","t">>, <<"A","b","o","u","t">>)>>))
    @@ (UrlSupport :> FaqBody(Question1))
    @@ (UrlAbout :> Nav(<<Anchor(<<"/","b","l","o","g">>, <<"B","l","o","g">>), Anchor(<<"/","s","u","p","p","o","r","t">>, <<"S","u","p","p","o","r","t">>)>>))

\* no FAQ link; pages that link to each other, to themselves, to the root
\* under its other spelling, off the site and below the depth limit
SiteCycle ==
    (UrlRoot :> <<Leaf("h1", <<"W","e","l","c","o","m","e">>)>>
                \o Nav(<<Anchor(<<"/","a","b","o","u","t">>, <<"A","b","o","u","t">>), Anchor(<<"b","l","o","g","/">>, <<"B","l","o","g">>),
                         Anchor(<<"#","t","o","p">>, <<"T","o","p">>),
                         Anchor(<<"h","t","t","p","s",":","/","/","y",".","i","o","/","f","a","q">>, <<"P","a","r","t","n","e","r">>),
                         Anchor(<<"/","a","/","b">>, <<"D","e","e","p">>),
                         Anchor(<<"m","a","i","l","t","o",":","x","@","x",".","i","o">>, <<"M","a","i","l">>)>>))
    @@ (UrlRootSlash :> Nav(<<Anchor(<<"/","a","b","o","u","t">>, <<"A","b","o","u","t">>), Anchor(<<"/","t","e","a","m">>, <<"T","e","a","m">>)>>))
    @@ (UrlAbout :> Nav(<<Anchor(<<"/","b","l","o","g">>, <<"B","l","o","g">>), Anchor(<<"/","a","b","o","u","t">>, <<"A","b","o","u","t">>),
                          Anchor(<<"/">>, <<"H","o","m","e">>), Anchor(<<"/","t","e","a","m">>, <<"T","e","a","m">>),
                          Anchor(<<"h","t","t","p","s",":","/","/","x",".","i","o">>, <<"S","t","a","r","t">>)>>))
    @@ (UrlBlog :> Nav(<<Anchor(<<"/","a","b","o","u","t">>, <<"A","b","o","u","t">>), Anchor(<<"/","t","e","a","m">>, <<"T","e","a","m">>),
                         Anchor(<<"/","n","e","w","s">>, <<"N","e","w","s">>)>>))
    @@ (UrlTeam :> Item("schema", Question1, Answer21))
    @@ (UrlNews :> FaqBody(Question2))

\* a FAQ link whose page holds no FAQ
SiteStale ==
    (UrlRoot :> Nav(<<Anchor(<<"/","f","a","q">>, <<"Q","u","e","s","t","i","o","n","s">>), Anchor(<<"/","a","b","o","u","t">>, <<"A","b","o","u","t">>)>>))
    @@ (UrlFaq :> Plain \o Nav(<<Anchor(<<"/","a","b","o","u","t">>, <<"A","b","o","u","t">>), Anchor(<<"/","h","e","l","p">>, <<"H","e","l","p">>)>>))
    @@ (UrlAbout :> FaqBody(Question1) \o Nav(<<Anchor(<<"/","h","e","l","p">>, <<"H","e","l","p">>)>>))
    @@ (UrlHelp :> FaqBody(Question2))

\* the FAQ is on the homepage
SiteHome ==
    (UrlRoot :> FaqBody(Question1) \o Nav(<<Anchor(<<"/","a","b","o","u","t">>, <<"A","b","o","u","t">>)>>))
    @@ (UrlAbout :> Plain)

Sites == {SiteOne, SiteTwo, SiteShadow, SiteCycle, SiteStale, SiteHome}

\* __init__ (lines 20-28); scrape_sync has not started
Init ==
    /\ pc = "start"
    /\ \E website_url \in WebsiteUrls : base_url = rstrip_chars(website_url, {"/"})
    /\ max_pages \in 1..MaxPagesBound
    /\ site \in Sites
    /\ visited_urls = {}
    /\ all_faqs = <<>>
    /\ seen_questions = {}
    /\ faq_page_found = FALSE
    /\ all_links_with_text = <<>>
    /\ faq_links = <<>>
    /\ to_crawl = <<>>
    /\ origin = <<>>
    /\ fetch_log = <<>>
    /\ attempts = <<>>
    /\ url_arg = <<>>
    /\ url_ret = <<>>

\* self.visited_urls.add(url) (lines 465, 487, 510)
Marked_not(visited, url) == visited
Marked(visited, url) == visited \cup {url}

\* line 479
FaqLinks(links) == SelectSeq(links, LAMBDA link : is_faq_link(link.url, link.text))

\* lines 499 and 518: `if url not in self.visited_urls`
Unvisited(links, visited) == SelectSeq(links, LAMBDA link : link.url \notin visited)

\* lines 489-492: the flag after the fetch of a FAQ link
FlagAfter_visit(flag, result) == TRUE
FlagAfter(flag, result) == IF result.ok THEN TRUE ELSE flag

\* line 497: `if not self.all_faqs`
NeedsFullCrawl_always(faqs) == TRUE
NeedsFullCrawl(faqs) == faqs = <<>>

\* line 505: the loop condition
Continues(frontier, visited, limit) ==
    frontier # <<>> /\ Cardinality(visited) < limit

\* line 506: what to_crawl.pop(0) leaves
Rest_keep(frontier) == frontier
Rest(frontier) == Tail(frontier)

\* lines 465-479: the homepage
ScrapeStart ==
    /\ pc = "start"
    /\ \E up \in BOOLEAN :
       \E seen \in {Marked(visited_urls, base_url)} :
       \E result \in {fetch_page_sync(site, base_url, up, base_url, seen)} :
       \E st \in {PageFaqs(CurrentSession, result, base_url)} :
       \E found \in {FaqLinks(result.links)} :
          /\ visited_urls' = seen
          /\ all_links_with_text' = result.links
          /\ SetSession(st)
          /\ faq_links' = found
          /\ fetch_log' = Append(fetch_log,
                                 LogEntry(base_url, "home", result, CurrentSession, st))
          /\ pc' = IF found # <<>> THEN "faq" ELSE "decide"
    /\ UNCHANGED <<base_url, max_pages, site, url_arg, url_ret, faq_page_found,
                   to_crawl>>

\* lines 485-494: one iteration of the loop over the FAQ links
FaqVisit ==
    /\ pc = "faq"
    /\ \E faq_url \in {faq_links[1].url} :
          IF faq_url \notin visited_urls
          THEN \E up \in BOOLEAN :
               \E seen \in {Marked(visited_urls, faq_url)} :
               \E result \in {fetch_page_sync(site, faq_url, up, base_url, seen)} :
               \E st \in {PageFaqs(CurrentSession, result, faq_url)} :
                  /\ visited_urls' = seen
                  /\ SetSession(st)
                  /\ faq_page_found' = FlagAfter(faq_page_found, result)
                  /\ fetch_log' = Append(fetch_log,
                                         LogEntry(faq_url, "faq", result, CurrentSession, st))
          ELSE UNCHANGED <<visited_urls, all_faqs, seen_questions, origin, attempts,
                           faq_page_found, fetch_log>>
    /\ faq_links' = Tail(faq_links)
    /\ pc' = IF Tail(faq_links) = <<>> THEN "decide" ELSE "faq"
    /\ UNCHANGED <<base_url, max_pages, site, url_arg, url_ret,
                   all_links_with_text, to_crawl>>

\* lines 497-503: whether the whole site is crawled
Decide ==
    /\ pc = "decide"
    /\ IF NeedsFullCrawl(all_faqs)
       THEN /\ to_crawl' = Unvisited(all_links_with_text, visited_urls)
            /\ pc' = "crawl"
       ELSE /\ pc' = "done"
            /\ UNCHANGED to_crawl
    /\ UNCHANGED <<base_url, max_pages, site, url_arg, url_ret, visited_urls,
                   all_faqs, seen_questions, faq_page_found, all_links_with_text,
                   faq_links, origin, fetch_log, attempts>>

\* lines 505-520: one iteration of the loop over the frontier
CrawlStep ==
    /\ pc = "crawl"
    /\ Continues(to_crawl, visited_urls, max_pages)
    /\ \E url \in {to_crawl[1].url} :
          IF url \in visited_urls
          THEN /\ to_crawl' = Rest(to_crawl)
               /\ UNCHANGED <<visited_urls, all_faqs, seen_questions, origin, attempts,
                              fetch_log>>
          ELSE \E up \in BOOLEAN :
               \E seen \in {Marked(visited_urls, url)} :
               \E result \in {fetch_page_sync(site, url, up, base_url, seen)} :
               \E st \in {PageFaqs(CurrentSession, result, url)} :
                  /\ visited_urls' = seen
                  /\ SetSession(st)
                  /\ to_crawl' = Rest(to_crawl) \o Unvisited(result.links, seen)
                  /\ fetch_log' = Append(fetch_log,
                                         LogEntry(url, "crawl", result, CurrentSession, st))
    /\ UNCHANGED <<pc, base_url, max_pages, site, url_arg, url_ret, faq_page_found,
                   all_links_with_text, faq_links>>

\* line 505: the loop ends
CrawlExit ==
    /\ pc = "crawl"
    /\ ~Continues(to_crawl, visited_urls, max_pages)
    /\ pc' = "done"
    /\ UNCHANGED <<base_url, max_pages, site, url_arg, url_ret, visited_urls,
                   all_faqs, seen_questions, faq_page_found, all_links_with_text,
                   faq_links, to_crawl, origin, fetch_log, attempts>>

\* lines 522-531: the result scrape_sync returns (without the timestamp)
Result ==
    [website |-> base_url,
     faqs |-> all_faqs,
     metadata |-> [pagesProcessed |-> Cardinality(visited_urls),
                   totalFaqsFound |-> Len(all_faqs),
                   faqPageFound |-> faq_page_found]]

Next == ScrapeStart \/ FaqVisit \/ Decide \/ CrawlStep \/ CrawlExit

Spec == Init /\ [][Next]_vars

\* every call of _fetch_page_sync returns, so the session takes its next step
FairSpec == Spec /\ WF_vars(Next)

----------------------------------------------------------------------------
(* The URL helpers called on their own, for a scraper constructed on each  *)
(* website url and a url put together from a prefix, a path and a suffix:  *)
(* _normalize_url applied to the url and then to its own result,           *)
(* _is_valid_internal_url applied to the url, and _extract_links_with_text *)
(* applied to a page whose one anchor carries the url as its href.         *)

MaxNormalizations == 2

UrlWebsites == {<<"h","t","t","p","s",":","/","/","x",".","i","o","/">>, <<"h","t","t","p",":","/","/","x",".","i","o">>, <<"h","t","t","p","s",":","/","/","y",".","i","o","/">>}
UrlPrefixes == {<<>>, <<"/">>, <<".",".","/">>, <<"h","t","t","p","s",":","/","/","x",".","i","o">>, <<"h","t","t","p","s",":","/","/","x",".","i","o","/">>, <<"h","t","t","p",":","/","/","x",".","i","o","/">>,
                <<"H","T","T","P",":","/","/","x",".","i","o","/">>, <<"/","/","x",".","i","o","/">>, <<"h","t","t","p","s",":","/","/","y",".","i","o","/">>, <<"m","a","i","l","t","o",":">>, <<"h","t","t","p",":">>}
UrlPaths == {<<>>, <<"f","a","q">>, <<"f","a","q","/">>, <<"f","a","q","/","/">>, <<"a","/","b">>, <<"a","/","b","/">>, <<"a","/","/","b">>, <<".","/","f","a","q">>}
UrlSuffixes == {<<>>, <<"?","q","=","1">>, <<"#","t","o","p">>, <<"?","q","=","1","#","t","o","p">>}
UrlInputs == {prefix \o path \o suffix :
                 prefix \in UrlPrefixes, path \in UrlPaths, suffix \in UrlSuffixes}

InitUrl ==
    /\ pc = "url"
    /\ \E website_url \in UrlWebsites : base_url = rstrip_chars(website_url, {"/"})
    /\ max_pages = 0
    /\ site = <<>>
    /\ visited_urls = {base_url}
    /\ all_faqs = <<>>
    /\ seen_questions = {}
    /\ faq_page_found = FALSE
    /\ all_links_with_text = <<>>
    /\ faq_links = <<>>
    /\ to_crawl = <<>>
    /\ origin = <<>>
    /\ fetch_log = <<>>
    /\ attempts = <<>>
    /\ url_arg \in UrlInputs
    /\ url_ret = <<>>

\* self._normalize_url(url), then self._normalize_url of what it returned
NormalizeUrl ==
    /\ pc = "url"
    /\ Len(url_ret) < MaxNormalizations
    /\ \E url \in {IF url_ret = <<>> THEN url_arg ELSE url_ret[Len(url_ret)]} :
          url_ret' = Append(url_ret, normalize_url(base_url, url))
    /\ UNCHANGED <<pc, base_url, max_pages, site, visited_urls, all_faqs, seen_questions,
                   faq_page_found, all_links_with_text, faq_links, to_crawl, origin,
                   fetch_log, attempts, url_arg>>

\* self._is_valid_internal_url(url)
ValidateUrl ==
    /\ pc = "url"
    /\ url_ret = <<>>
    /\ pc' = "validated"
    /\ url_ret' = <<is_valid_internal_url(Domain(base_url), url_arg)>>
    /\ UNCHANGED <<base_url, max_pages, site, visited_urls, all_faqs, seen_questions,
                   faq_page_found, all_links_with_text, faq_links, to_crawl, origin,
                   fetch_log, attempts, url_arg>>

\* self._extract_links_with_text(soup, url) on <a href="url_arg">Link</a>
ExtractLinks ==
    /\ pc = "url"
    /\ url_ret = <<>>
    /\ pc' = "extracted"
    /\ all_links_with_text' =
           extract_links_with_text(<<Anchor(url_arg, <<"L","i","n","k">>)>>, base_url, visited_urls)
    /\ UNCHANGED <<base_url, max_pages, site, visited_urls, all_faqs, seen_questions,
                   faq_page_found, faq_links, to_crawl, origin, fetch_log, attempts,
                   url_arg, url_ret>>

NextUrl == NormalizeUrl \/ ValidateUrl \/ ExtractLinks

SpecUrl == InitUrl /\ [][NextUrl]_vars

----------------------------------------------------------------------------
(* Claims about _add_faq                                                   *)

FoldKey(question) == strip(lower(question))

\* What a candidate leaves in an empty session: <<>> or one record.
Solo(c) == add_faq(EmptySession, c.question, c.answer, c.sourceUrl, c.strategy).all_faqs

\* C2: no two records of all_faqs have the same case-folded, trimmed
\* question text.
C2_DedupInvariant ==
    \A i, j \in 1..Len(all_faqs) :
        i # j => FoldKey(all_faqs[i].question) # FoldKey(all_faqs[j].question)

\* A later candidate whose question differs from a stored one only by case
\* or by a leading ordinal was offered and dropped.
C2_Witness ==
    /\ Len(all_faqs) = 1
    /\ Len(attempts) = 2
    /\ Solo(attempts[1]) = all_faqs
    /\ Solo(attempts[2]) # <<>>
    /\ Solo(attempts[2])[1].question # all_faqs[1].question
    /\ FoldKey(Solo(attempts[2])[1].question) = FoldKey(all_faqs[1].question)

\* Candidate i is the first of the candidates that would be stored on their
\* own to carry its question (compared case-insensitively).
FirstOfItsQuestion(att, i) ==
    /\ Solo(att[i]) # <<>>
    /\ \A j \in 1..(i - 1) :
          Solo(att[j]) # <<>> =>
             FoldKey(Solo(att[j])[1].question) # FoldKey(Solo(att[i])[1].question)

RECURSIVE FirstWriters(_, _)
FirstWriters(att, i) ==
    IF i > Len(att) THEN <<>>
    ELSE (IF FirstOfItsQuestion(att, i) THEN Solo(att[i]) ELSE <<>>)
         \o FirstWriters(att, i + 1)

\* C9: first writer wins. The records of all_faqs are, in order, the
\* candidates that were the first to carry their question, each with the
\* answer and sourceUrl of that first candidate; a later candidate with the
\* same question adds nothing and changes nothing.
C9_FirstWriterWins == all_faqs = FirstWriters(attempts, 1)

\* Two storable candidates with the same question and different answers
\* were offered; one record is kept, with the first answer.
C9_Witness ==
    /\ Len(attempts) = 2
    /\ Solo(attempts[1]) # <<>> /\ Solo(attempts[2]) # <<>>
    /\ FoldKey(Solo(attempts[1])[1].question) = FoldKey(Solo(attempts[2])[1].question)
    /\ attempts[1].answer # attempts[2].answer
    /\ Len(all_faqs) = 1
    /\ all_faqs[1].answer = attempts[1].answer

\* C10: the stored question and the stored answer of every record pass the
\* English heuristic.
C10_StoredTextIsEnglish ==
    \A i \in 1..Len(all_faqs) :
        is_english(all_faqs[i].question) /\ is_english(all_faqs[i].answer)

\* C11: no stored question contains, compared in lower case, "sign in" or
\* any other substring of the noise list.
C11_NoNoiseStored ==
    \A i \in 1..Len(all_faqs) :
        \A pattern \in SkipPatterns :
            ~Contains(lower(all_faqs[i].question), pattern)

\* A candidate that passes the English and length tests and carries a noise
\* substring in other letter case was offered and is not stored, while
\* another candidate is.
C11_Witness ==
    /\ Len(attempts) = 2
    /\ Len(all_faqs) = 1
    /\ \E i \in 1..2 :
          /\ Contains(lower(attempts[i].question), <<"s","i","g","n"," ","i","n">>)
          /\ ~Contains(attempts[i].question, <<"s","i","g","n"," ","i","n">>)
          /\ is_english(attempts[i].question) /\ is_english(attempts[i].answer)
          /\ Len(CleanQuestion(attempts[i].question)) > MinQuestionLen
          /\ Solo(attempts[i]) = <<>>

\* C16: a question that starts with a letter (so with no quote and no digit
\* ordinal in front), once stored, is stored character for character: every
\* such candidate that is the first to carry its question has a record whose
\* question is exactly the candidate's text.
C16_LetterQuestionStoredVerbatim ==
    \A i \in 1..Len(attempts) :
        /\ attempts[i].question # <<>>
        /\ attempts[i].question[1] \in AsciiLetters
        /\ FirstOfItsQuestion(attempts, i)
        => \E k \in 1..Len(all_faqs) : all_faqs[k].question = attempts[i].question

----------------------------------------------------------------------------
(* Claims about the extraction of one page                                 *)

\* the Question entries of the valid FAQPage JSON-LD blocks of a page as the
\* site serves it
ServedQuestionItems(url) == SchemaScripts(site[url])

\* the record a Question entry stands for
SchemaRecord(item, url) ==
    Solo([question |-> normalize_text(item.question),
          answer |-> normalize_text(item.answer),
          sourceUrl |-> url, strategy |-> "schema"])

\* C4: a page that was fetched and carries one valid FAQPage JSON-LD
\* Question/acceptedAnswer pair has that record in all_faqs, whatever else
\* the page holds.
C4_StructuredDataYieldsRecord ==
    \A i \in 1..Len(fetch_log) :
        LET url == fetch_log[i].url
        IN  (fetch_log[i].ok /\ Len(ServedQuestionItems(url)) = 1
             /\ SchemaRecord(ServedQuestionItems(url)[1], url) # <<>>)
            => \E k \in 1..Len(all_faqs) :
                  all_faqs[k] = SchemaRecord(ServedQuestionItems(url)[1], url)[1]

HeuristicStrategies == {"accordion", "class", "heading", "dl", "markdown", "paragraph"}
LengthCheckedStrategies == {"heading", "markdown", "paragraph"}

\* C5 as stated: every record a heuristic strategy produced has an answer
\* longer than 20 characters.
C5_HeuristicAnswersLong ==
    \A i \in 1..Len(all_faqs) :
        origin[i] \in HeuristicStrategies => Len(all_faqs[i].answer) > MinAnswerLen

\* C5 as amended: every record produced by the heading+content, markdown
\* marker or paragraph-pair strategy has an answer longer than 20
\* characters (the accordion, class-container and definition-list
\* strategies only require a non-empty answer).
C5_LengthCheckedAnswersLong ==
    \A i \in 1..Len(all_faqs) :
        origin[i] \in LengthCheckedStrategies => Len(all_faqs[i].answer) > MinAnswerLen

\* A page was extracted that offered a length-checked strategy both an
\* answer of exactly 20 characters and one of 21: only the latter is kept.
C5_Witness ==
    /\ pc = "extracted"
    /\ Len(all_faqs) = 1
    /\ origin[1] \in LengthCheckedStrategies
    /\ Len(all_faqs[1].answer) = MinAnswerLen + 1
    /\ \E w \in WrapKinds, k \in {"heading", "markdown", "paragraph", "nested"},
          q \in PageQuestions :
          site[UrlFaq] = Wrap(w, Item(k, q, Answer20) \o Item(k, q, Answer21))

----------------------------------------------------------------------------
(* Claims about the crawl                                                  *)

\* the URLs that were requested
Fetched == {fetch_log[i].url : i \in 1..Len(fetch_log)}

\* the fetch of url added at least one record
Yielded(url) ==
    \E i \in 1..Len(fetch_log) : fetch_log[i].url = url /\ fetch_log[i].added >= 1

\* the anchors of the homepage as the site serves it, and where they lead
HomeAnchors == SelectTag(Descendants(site[base_url]), {"a"})
HomeLinked == {normalize_url(base_url, HomeAnchors[k].href) : k \in 1..Len(HomeAnchors)}

\* the homepage links that satisfy _is_faq_link
HomeFaqUrls ==
    {all_links_with_text[k].url : k \in
        {j \in 1..Len(all_links_with_text) :
            is_faq_link(all_links_with_text[j].url, all_links_with_text[j].text)}}

\* C1: at the end of the crawl, metadata.pagesProcessed is at most
\* max_pages.
C1_PagesProcessedBounded ==
    pc = "done" => Result.metadata.pagesProcessed <= max_pages

\* C3 as stated: if the homepage has an anchor whose text is exactly "FAQ"
\* and the fetch of its target added a record, no other page the homepage
\* links to was fetched and faqPageFound is true.
C3_OnlyTheFaqLinkFetched ==
    pc = "done" =>
        \A k \in 1..Len(HomeAnchors) :
            (/\ get_text_strip(HomeAnchors[k]) = <<"F","A","Q">>
             /\ Yielded(normalize_url(base_url, HomeAnchors[k].href)))
            => /\ (Fetched \cap HomeLinked) \ {base_url}
                      \subseteq {normalize_url(base_url, HomeAnchors[k].href)}
               /\ Result.metadata.faqPageFound

\* C3 as amended: if the link list of the homepage (its valid internal
\* links, one per URL with the text of the first anchor) has a link whose
\* text is "faq" and the fetch of that link added a record, then the pages
\* fetched are the homepage and every homepage link that satisfies
\* isFaqLink, no other page, and faqPageFound is true.
C3_OnlyFaqLinksFetched ==
    pc = "done" =>
        \A k \in 1..Len(all_links_with_text) :
            (/\ all_links_with_text[k].text = <<"f","a","q">>
             /\ Yielded(all_links_with_text[k].url))
            => /\ Fetched = {base_url} \cup HomeFaqUrls
               /\ Result.metadata.faqPageFound

\* The crawl of a homepage with two FAQ links and a third link ended after
\* the link with the text "faq" gave a record: both FAQ links were fetched,
\* the third link was not.
C3_Witness ==
    /\ pc = "done"
    /\ \E k \in 1..Len(all_links_with_text) :
          /\ all_links_with_text[k].text = <<"f","a","q">>
          /\ Yielded(all_links_with_text[k].url)
    /\ Cardinality(HomeFaqUrls) = 2
    /\ Cardinality(Fetched) = 3
    /\ HomeLinked \ Fetched # {}

\* C6 as stated: at the end of the crawl, faqPageFound is true exactly when
\* a FAQ link was visited, whether or not its fetch succeeded.
C6_FlagIffFaqLinkVisited ==
    pc = "done" =>
        (Result.metadata.faqPageFound
            <=> \E i \in 1..Len(fetch_log) : fetch_log[i].phase = "faq")

\* C6 as amended: at the end of the crawl, faqPageFound is true exactly when
\* the fetch of at least one FAQ link succeeded, whether or not a record was
\* extracted from it.
C6_FlagIffFaqLinkFetched ==
    pc = "done" =>
        (Result.metadata.faqPageFound
            <=> \E i \in 1..Len(fetch_log) :
                   fetch_log[i].phase = "faq" /\ fetch_log[i].ok)

\* A crawl ended with faqPageFound true after the fetch of one FAQ link
\* failed and the fetch of another succeeded.
C6_Witness ==
    /\ pc = "done"
    /\ faq_page_found
    /\ \E i \in 1..Len(fetch_log) : fetch_log[i].phase = "faq" /\ ~fetch_log[i].ok
    /\ \E i \in 1..Len(fetch_log) : fetch_log[i].phase = "faq" /\ fetch_log[i].ok

\* the step is a fetch that failed
FailedFetchStep ==
    /\ Len(fetch_log') = Len(fetch_log) + 1
    /\ ~fetch_log'[Len(fetch_log')].ok

\* what a failed fetch of url in the given phase leaves behind
SkippedOnly(url, phase) ==
    /\ all_faqs' = all_faqs
    /\ seen_questions' = seen_questions
    /\ visited_urls' = visited_urls \cup {url}
    /\ url \notin visited_urls
    /\ \A i \in 1..Len(fetch_log) : fetch_log[i].url # url
    /\ phase = "crawl" => to_crawl' = Tail(to_crawl) /\ pc' = "crawl"
    /\ phase = "faq" => to_crawl' = to_crawl /\ pc' \in {"faq", "decide"}
    /\ phase = "home" => to_crawl' = to_crawl /\ all_links_with_text' = <<>>

\* C7: a fetch that fails adds no record and no link: all_faqs and
\* seen_questions are unchanged, VisitedSet gains the failed URL only, the
\* frontier only loses the item that was taken from it, the URL had not
\* been requested before, and the loop goes on with the next item.
C7_FailedFetchIsSkipped ==
    [][FailedFetchStep =>
          SkippedOnly(fetch_log'[Len(fetch_log')].url,
                      fetch_log'[Len(fetch_log')].phase)]_vars

\* A fetch of the frontier failed and the next item of the frontier was
\* fetched after it.
C7_Witness ==
    \E i \in 1..(Len(fetch_log) - 1) :
        /\ fetch_log[i].phase = "crawl" /\ ~fetch_log[i].ok
        /\ fetch_log[i + 1].phase = "crawl"
        /\ fetch_log[i + 1].url # fetch_log[i].url

\* C8: every crawl reaches the end (the result is returned), given that
\* every fetch returns.
C8_CrawlTerminates == <>(pc = "done")

\* The loop over the frontier of a site whose pages link to each other
\* ended at the page limit with links still in the frontier.
C8_Witness ==
    /\ pc = "done"
    /\ to_crawl # <<>>
    /\ Cardinality(visited_urls) >= max_pages
    /\ \E i \in 1..Len(fetch_log) : fetch_log[i].phase = "crawl"
    /\ \E k \in 1..Len(to_crawl) : to_crawl[k].url \in visited_urls

\* C14: once the homepage is fetched, a homepage link that satisfies
\* _is_faq_link sends the session into the loop over the FAQ links; with no
\* such link the session enters the full crawl, its frontier the unvisited
\* homepage links, whatever the homepage itself yielded.
C14_ModeDecision ==
    [][/\ pc = "start" /\ FaqLinks(all_links_with_text') # <<>> => pc' = "faq"
       /\ pc = "decide" /\ FaqLinks(all_links_with_text) = <<>>
             => /\ pc' = "crawl"
                /\ to_crawl' = Unvisited(all_links_with_text, visited_urls)]_vars

\* C15: every URL of visited_urls, the root added at line 465 included, equals
\* _normalize_url of itself; and no page is fetched twice in a session: the
\* URLs of the GETs issued, once normalised, are all different.
C15_VisitedCanonical ==
    /\ \A url \in visited_urls : normalize_url(base_url, url) = url
    /\ \A i, j \in 1..Len(fetch_log) :
          i < j => normalize_url(base_url, fetch_log[i].url)
                   # normalize_url(base_url, fetch_log[j].url)

----------------------------------------------------------------------------
(* Claims about the URL helpers                                            *)

\* C12: normalising a normalised URL returns it unchanged: the second call of
\* _normalize_url, on the result of the first, returns that result.
C12_NormalizeIdempotent ==
    Len(url_ret) >= 2 => url_ret[2] = url_ret[1]

\* the non-empty segments of the path of a URL
PathSegments(url) ==
    SelectSeq(split(urlparse(url, <<>>).path, "/"), LAMBDA segment : segment # <<>>)

\* C13: _is_valid_internal_url answers False for a URL whose path has more
\* than one non-empty segment, whatever the domain of the scraper; and every
\* link that link extraction returns has at most one non-empty path segment.
C13_DepthBound ==
    /\ pc = "validated" /\ Len(PathSegments(url_arg)) > MaxDepth => url_ret = <<FALSE>>
    /\ \A i \in 1..Len(all_links_with_text) :
          Len(PathSegments(all_links_with_text[i].url)) <= MaxDepth

\* a URL two segments deep on the scraper's own domain, which passes every
\* other test of _is_valid_internal_url, was validated and refused
C13_Witness ==
    /\ pc = "validated"
    /\ url_arg = <<"h","t","t","p","s",":","/","/","x",".","i","o","/","a","/","b">>
    /\ base_url = <<"h","t","t","p","s",":","/","/","x",".","i","o">>
    /\ Len(PathSegments(url_arg)) = 2
    /\ ValidParts_any_depth(Domain(base_url), urlparse(url_arg, <<>>), url_arg, <<"a","/","b">>)
    /\ url_ret = <<FALSE>>

====
